---------------------------- MODULE Spec2Model ----------------------------
(***************************************************************************)
(* A model of meep_adjoint's frequency-domain extraction layer             *)
(* (src/meep_adjoint/dft_cell.py) and of its eigenmode-coefficient         *)
(* objective (src/meep_adjoint/objective.py).                              *)
(*                                                                         *)
(* The module holds five independent state machines, one per object kind:  *)
(*   SpecSub   Subregion.__init__                                          *)
(*   SpecGrid  make_grid                                                   *)
(*   SpecMeta  fix_array_metadata followed by xyzw2grid                    *)
(*   SpecCell  DFTCell (register, slices, snapshots, eigenmodes, call)     *)
(*   SpecObj   EigenmodeCoefficient                                        *)
(* Each specification moves its own variables and leaves the others at     *)
(* their idle values.                                                      *)
(*                                                                         *)
(* Numbers.  Coordinates and extents are exact rationals <<n, d>> in       *)
(* lowest terms with d > 0, so that 0.5*size and linspace are computed     *)
(* exactly.  Field amplitudes are Gaussian integers <<re, im>>.            *)
(* Python's None is NoneV; an attribute that was never assigned is Unset.  *)
(***************************************************************************)
EXTENDS Integers, Sequences, FiniteSets, TLC

VARIABLES
    \* ---- SpecSub
    subA,       \* the Subregion built by the last constructor call (or NoneV)
    subB,       \* the Subregion rebuilt from subA's corners (or NoneV)
    subOut,     \* outcome of the last constructor call
    \* ---- SpecGrid
    mgArgs,     \* the arguments of the last make_grid call
    mgOut,      \* what that call produced: a Grid, or the exception raised
    \* ---- SpecMeta
    mdArgs,     \* raw array metadata, center and size handed to fix_array_metadata
    mdXyzw,     \* the xyzw list after fix_array_metadata (mutated in place)
    mdGrid,     \* xyzw2grid of the fixed list
    \* ---- SpecCell
    cell,       \* the DFTCell's attributes
    simData,    \* simulator side: the run whose fields the newest monitor holds
    ret,        \* the DFTCell call whose result the caller holds, or NoneV
    nsub,       \* number of in-place subtractions that reached EH_cache
    \* ---- SpecObj
    oq,         \* the EigenmodeCoefficient's attributes
    oqRet,      \* operation and outcome of the last EigenmodeCoefficient call
    oqArgs      \* the arguments the EigenmodeCoefficient was constructed with

subVars  == <<subA, subB, subOut>>
gridVars == <<mgArgs, mgOut>>
metaVars == <<mdArgs, mdXyzw, mdGrid>>
cellVars == <<cell, simData, ret, nsub>>
objVars  == <<oq, oqRet, oqArgs>>
vars     == <<subVars, gridVars, metaVars, cellVars, objVars>>

\* Optional values are sets of at most one element: Python's None, and an
\* attribute that was never assigned, are the empty set; a value x is {x}.
NoneV   == {}
Unset   == {}
Some(x) == {x}
Get(o)  == CHOOSE x \in o : TRUE

(***************************************************************************)
(* Exact arithmetic                                                        *)
(***************************************************************************)
RECURSIVE Gcd(_, _)
Gcd(a, b) == IF b = 0 THEN a ELSE Gcd(b, a % b)

Abs(n) == IF n < 0 THEN -n ELSE n

Rat(n, d) ==
    LET g == Gcd(Abs(n), Abs(d))
        s == IF d < 0 THEN -1 ELSE 1
    IN  <<(s * n) \div g, (s * d) \div g>>

R(k)       == <<k, 1>>
RAdd(a, b) == Rat(a[1] * b[2] + b[1] * a[2], a[2] * b[2])
RSub(a, b) == Rat(a[1] * b[2] - b[1] * a[2], a[2] * b[2])
RMul(a, b) == Rat(a[1] * b[1], a[2] * b[2])
RPos(a)    == a[1] > 0
RHalf      == <<1, 2>>

\* mp.Vector3 arithmetic, component by component
VAdd(u, v)   == [d \in 1..3 |-> RAdd(u[d], v[d])]
VSub(u, v)   == [d \in 1..3 |-> RSub(u[d], v[d])]
VScale(k, v) == [d \in 1..3 |-> RMul(k, v[d])]
V3(x, y, z)  == <<R(x), R(y), R(z)>>

RECURSIVE SeqSum(_)
SeqSum(s) == IF s = <<>> THEN 0 ELSE Head(s) + SeqSum(Tail(s))

RECURSIVE SeqProd(_)
SeqProd(s) == IF s = <<>> THEN 1 ELSE Head(s) * SeqProd(Tail(s))


(***************************************************************************)
(* Bounds of the input sets                                                *)
(***************************************************************************)
MaxCoord  == 1      \* center coordinates range over -MaxCoord..MaxCoord
MaxExtent == 2      \* extents range over 0..MaxExtent
MaxSim    == 2      \* simulations are numbered 1..MaxSim

Coords  == (0 - MaxCoord)..MaxCoord
Extents == 0..MaxExtent
Centers == {V3(x, y, z) : x \in Coords, y \in Coords, z \in Coords}
Sizes   == {V3(x, y, z) : x \in Extents, y \in Extents, z \in Extents}

(***************************************************************************)
(* Subregion  (dft_cell.py, class Subregion)                               *)
(***************************************************************************)
\* dft_cell.py neither defines nor imports the name v3 that line 142 calls:
\* evaluating it raises NameError before any corner attribute is assigned.
v3Defined == FALSE

\* An instance before __init__ assigns anything.
SubregionBlank ==
    [fcen |-> Unset, df |-> Unset, nfreq |-> Unset, xmin |-> Unset,
     xmax |-> Unset, center |-> Unset, size |-> Unset, normal |-> Unset,
     name |-> Unset]

\* Subregion.__init__ with optional arguments xmin, xmax, size, normal, dir,
\* name: [out |-> "ok", obj |-> {the instance}], or the exception that aborted
\* the constructor (then no instance reaches the caller).
Subregion_init(fcen, df, nfreq, xmin, xmax, center, size, normal, dir, name) ==
    LET o1  == [SubregionBlank EXCEPT !.fcen = Some(fcen), !.df = Some(df),
                                      !.nfreq = Some(nfreq)]
        fin(o) == [o EXCEPT !.normal = IF normal = NoneV THEN dir ELSE normal,
                            !.name = name]
    IN  IF xmin # NoneV /\ xmax # NoneV
        THEN IF ~v3Defined
             THEN [out |-> "NameError", obj |-> NoneV]
             ELSE [out |-> "ok",
                   obj |-> Some(fin([o1 EXCEPT
                       !.xmin = xmin, !.xmax = xmax,
                       !.center = Some(VScale(RHalf, VAdd(Get(xmax), Get(xmin)))),
                       !.size = Some(VSub(Get(xmax), Get(xmin)))]))]
        ELSE IF size # NoneV
        THEN [out |-> "ok",
              obj |-> Some(fin([o1 EXCEPT
                  !.center = Some(center), !.size = size,
                  !.xmin = Some(VAdd(center, VScale(R(-1), Get(size)))),
                  !.xmax = Some(VAdd(center, VScale(R(1), Get(size))))]))]
        ELSE [out |-> "ok", obj |-> Some(fin(o1))]

Opt(S) == {NoneV} \cup {Some(x) : x \in S}

\* The driver constructs a Subregion from one of the argument shapes:
\* center and size, both corners, or neither.
SubArgs ==
    [xmin : {NoneV}, xmax : {NoneV}, center : Centers,
     size : {Some(v) : v \in Sizes}, normal : Opt({0}), dir : Opt({1})]
    \cup
    [xmin : {Some(v) : v \in Centers}, xmax : {Some(v) : v \in Centers},
     center : {V3(0, 0, 0)}, size : {NoneV}, normal : Opt({0}), dir : {NoneV}]
    \cup
    [xmin : Opt({V3(0, 0, 0)}), xmax : {NoneV}, center : {V3(0, 0, 0)},
     size : {NoneV}, normal : Opt({0}), dir : Opt({1})]

SubIdle == subA = NoneV /\ subB = NoneV /\ subOut = NoneV

SubConstruct ==
    /\ subOut = NoneV
    /\ UNCHANGED <<gridVars, metaVars, cellVars, objVars>>
    /\ \E a \in SubArgs :
        LET r == Subregion_init(1, 0, 1, a.xmin, a.xmax, a.center, a.size,
                                a.normal, a.dir, NoneV)
        IN  /\ subA' = r.obj
            /\ subB' = NoneV
            /\ subOut' = Some([op |-> "construct", args |-> a, out |-> r.out])

\* The round trip: a second Subregion from the corners of the first.
SubRebuild ==
    /\ subA # NoneV
    /\ UNCHANGED <<gridVars, metaVars, cellVars, objVars>>
    /\ Get(subA).xmin # Unset
    /\ LET o == Get(subA)
           r == Subregion_init(Get(o.fcen), Get(o.df), Get(o.nfreq), o.xmin,
                               o.xmax, V3(0, 0, 0), NoneV, o.normal, NoneV,
                               o.name)
       IN  /\ subB' = r.obj
           /\ subOut' = Some([op |-> "rebuild", args |-> Get(subOut).args,
                              out |-> r.out])
    /\ UNCHANGED subA

(***************************************************************************)
(* Grid and make_grid  (dft_cell.py, lines 44-79)                          *)
(***************************************************************************)
DefaultDim == 10    \* points per positive axis when neither dims nor length
MaxDim     == 3     \* caller-supplied dims entries range over 1..MaxDim
MaxLength  == 2     \* caller-supplied lengthscales range over 1..MaxLength

Max(a, b) == IF a > b THEN a ELSE b

\* int(np.ceil(s/length)) for a rational s >= 0 and an integer length > 0
CeilDiv(s, length) == (s[1] + s[2] * length - 1) \div (s[2] * length)

\* np.linspace(a, b, n)
linspace(a, b, n) ==
    [i \in 1..n |->
        IF n = 1 THEN a
        ELSE RAdd(a, RMul(Rat(i - 1, n - 1), RSub(b, a)))]

\* len(np.flatnonzero(size))
CountNonzero(size) == Cardinality({d \in DOMAIN size : size[d][1] # 0})

Take(s, n) == SubSeq(s, 1, IF n < Len(s) THEN n ELSE Len(s))

\* [f(x, y, z) for x in xs for y in ys for z in zs], row-major
PointList(xs, ys, zs) ==
    LET ny == Len(ys)
        nz == Len(zs)
    IN  [k \in 1..(Len(xs) * ny * nz) |->
            <<xs[((k - 1) \div (ny * nz)) + 1],
              ys[(((k - 1) \div nz) % ny) + 1],
              zs[((k - 1) % nz) + 1]>>]

RECURSIVE RProd(_)
RProd(s) == IF s = <<>> THEN R(1) ELSE RMul(Head(s), RProd(Tail(s)))

SelectPos(s) == SelectSeq(s, RPos)

LongerThanOne(n) == n > 1

\* make_grid(size, center, dims, length): dims and length are optional.
make_grid(size0, center0, dims0, length) ==
    LET nd     == CountNonzero(size0)
        center == Take(center0, nd)
        size   == Take(size0, nd)
        dims   == IF length # NoneV
                  THEN [d \in 1..Len(size) |-> Max(1, CeilDiv(size[d], Get(length)))]
                  ELSE IF dims0 = NoneV
                  THEN [d \in 1..Len(size) |->
                           IF RPos(size[d]) THEN DefaultDim ELSE 1]
                  ELSE Get(dims0)
        pmin   == [d \in 1..nd |-> RSub(center[d], RMul(RHalf, size[d]))]
        pmax   == [d \in 1..nd |-> RAdd(center[d], RMul(RHalf, size[d]))]
        nz     == IF nd < Len(dims) THEN nd ELSE Len(dims)      \* zip stops at the shortest
        tics0  == [d \in 1..nz |-> linspace(pmin[d], pmax[d], dims[d])]
        tics   == IF Len(tics0) = 2 THEN Append(tics0, <<R(0)>>) ELSE tics0
    IN  IF Len(tics) < 3
        THEN [out |-> "IndexError", grid |-> NoneV]
        ELSE LET points  == PointList(tics[1], tics[2], tics[3])
                 vol     == RProd(SelectPos(size))
                 ntot    == SeqProd(dims)
                 weights == [k \in 1..ntot |-> RMul(vol, Rat(1, ntot))]
                 lens    == [d \in 1..Len(tics) |-> Len(tics[d])]
                 shape   == SelectSeq(lens, LongerThanOne)
             IN  [out |-> "ok",
                  grid |-> Some([xtics |-> tics[1], ytics |-> tics[2],
                                 ztics |-> tics[3], points |-> points,
                                 weights |-> weights, shape |-> shape])]

\* Boxes: three size components, or only the two in-plane ones.
GridSizes == Sizes \cup {<<R(x), R(y)>> : x \in Extents, y \in Extents}

\* A valid dims list for a box: one entry per size component, 1 on the axes
\* of zero extent.
ValidDims(size) ==
    {dd \in [1..Len(size) -> 1..MaxDim] :
        \A d \in 1..Len(size) : size[d][1] = 0 => dd[d] = 1}

GridIdle == mgArgs = NoneV /\ mgOut = NoneV

MakeGridDefault ==
    /\ mgArgs = NoneV
    /\ UNCHANGED <<subVars, metaVars, cellVars, objVars>>
    /\ \E size \in GridSizes, center \in Centers :
        /\ mgArgs' = Some([size |-> size, center |-> center, dims |-> NoneV,
                           length |-> NoneV])
        /\ mgOut' = make_grid(size, center, NoneV, NoneV)

MakeGridDims ==
    /\ mgArgs = NoneV
    /\ UNCHANGED <<subVars, metaVars, cellVars, objVars>>
    /\ \E size \in GridSizes, center \in Centers :
      \E dd \in ValidDims(size) :
        /\ mgArgs' = Some([size |-> size, center |-> center, dims |-> Some(dd),
                           length |-> NoneV])
        /\ mgOut' = make_grid(size, center, Some(dd), NoneV)

MakeGridLength ==
    /\ mgArgs = NoneV
    /\ UNCHANGED <<subVars, metaVars, cellVars, objVars>>
    /\ \E size \in GridSizes, center \in Centers, len \in 1..MaxLength :
        /\ mgArgs' = Some([size |-> size, center |-> center, dims |-> NoneV,
                           length |-> Some(len)])
        /\ mgOut' = make_grid(size, center, NoneV, Some(len))

(***************************************************************************)
(* fix_array_metadata and xyzw2grid  (dft_cell.py, lines 32-38, 82-86)     *)
(***************************************************************************)
\* An n-dimensional array is [shape |-> <<n1, ...>>, data |-> its entries in
\* row-major order].
\* The integration weights simulation s reports: full cells everywhere in
\* simulation 1; in the other simulations the region ends half a cell in, so
\* the first and last entries weigh half (weights are in units of half a cell).
SimWeights(s, shape) ==
    LET n == SeqProd(shape)
    IN  [shape |-> shape,
         data |-> [k \in 1..n |-> IF s # 1 /\ (k = 1 \/ k = n) THEN 1 ELSE 2]]

\* What the simulator's get_array_metadata may return for one axis with
\* center c and extent s.  On an axis of positive extent: the grid points
\* at unit spacing.  On an axis of zero extent: the single center, a single
\* snapped point off the center, or two points (straddling the center, or
\* starting at it).
AxisVariants(s) ==
    IF RPos(s) THEN {"exact"} ELSE {"exact", "shifted", "straddle", "doubled"}

RawAxis(c, s, v) ==
    IF RPos(s) THEN linspace(RSub(c, RMul(RHalf, s)), RAdd(c, RMul(RHalf, s)),
                             CeilDiv(s, 1) + 1)
    ELSE IF v = "exact"    THEN <<c>>
    ELSE IF v = "shifted"  THEN <<RAdd(c, RHalf)>>
    ELSE IF v = "straddle" THEN <<RSub(c, RHalf), RAdd(c, RHalf)>>
    ELSE                        <<c, RAdd(c, R(1))>>

\* sim.get_array_metadata(center, size, collapse=True, snap=True): the three
\* coordinate arrays and a weight array shaped like the axes longer than 1.
get_array_metadata(s, center, size, v) ==
    LET tics == [d \in 1..3 |-> RawAxis(center[d], size[d], v[d])]
        lens == [d \in 1..3 |-> Len(tics[d])]
    IN  <<tics[1], tics[2], tics[3],
          SimWeights(s, SelectSeq(lens, LongerThanOne))>>

\* fix_array_metadata(xyzw, center, size): the list after the in-place fix.
fix_array_metadata(xyzw, center, size) ==
    [d \in 1..4 |->
        IF d = 4 THEN xyzw[4]
        ELSE IF size[d][1] = 0 /\ xyzw[d][1] # center[d]
        THEN <<center[d]>>
        ELSE xyzw[d]]

\* xyzw2grid(xyzw)
xyzw2grid(xyzw) ==
    [xtics |-> xyzw[1], ytics |-> xyzw[2], ztics |-> xyzw[3],
     points |-> PointList(xyzw[1], xyzw[2], xyzw[3]),
     weights |-> xyzw[4].data, shape |-> xyzw[4].shape]

MetaIdle == mdArgs = NoneV /\ mdXyzw = NoneV /\ mdGrid = NoneV

MetaFix ==
    /\ mdArgs = NoneV
    /\ UNCHANGED <<subVars, gridVars, cellVars, objVars>>
    /\ \E center \in Centers, size \in Sizes, s \in 1..MaxSim :
      \E v \in [1..3 -> {"exact", "shifted", "straddle", "doubled"}] :
        /\ \A d \in 1..3 : v[d] \in AxisVariants(size[d])
        /\ LET raw == get_array_metadata(s, center, size, v)
           IN  /\ mdArgs' = Some([xyzw |-> raw, center |-> center, size |-> size])
               /\ mdXyzw' = Some(fix_array_metadata(raw, center, size))
        /\ mdGrid' = NoneV

MetaToGrid ==
    /\ mdXyzw # NoneV
    /\ UNCHANGED <<subVars, gridVars, cellVars, objVars>>
    /\ mdGrid = NoneV
    /\ mdGrid' = Some(xyzw2grid(Get(mdXyzw)))
    /\ UNCHANGED <<mdArgs, mdXyzw>>

(***************************************************************************)
(* DFTCell  (dft_cell.py, class DFTCell)                                   *)
(***************************************************************************)
MaxRun  == 1        \* timestepping runs (field data sets) are numbered 1..MaxRun
NFreq   == 2        \* region.nfreq: frequency indices are 0..NFreq-1
MaxMode == 1        \* eigenmode indices are 1..MaxMode
MaxSub  == 1        \* in-place subtractions that may reach EH_cache

\* Complex numbers with integer parts
CAdd(a, b)   == <<a[1] + b[1], a[2] + b[2]>>
CSub(a, b)   == <<a[1] - b[1], a[2] - b[2]>>
CMul(a, b)   == <<a[1] * b[1] - a[2] * b[2], a[1] * b[2] + a[2] * b[1]>>
CConj(a)     == <<a[1], 0 - a[2]>>
CScale(k, a) == <<k * a[1], k * a[2]>>

RECURSIVE CSum(_)
CSum(s) == IF s = <<>> THEN <<0, 0>> ELSE CAdd(Head(s), CSum(Tail(s)))

\* a complex value divided by the integer n, with exact rational parts
CDiv(a, n) == <<Rat(a[1], n), Rat(a[2], n)>>

E_CPTS  == <<"Ex", "Ey", "Ez">>
H_CPTS  == <<"Hx", "Hy", "Hz">>
EH_CPTS == E_CPTS \o H_CPTS
EH_TRANSVERSE ==
    << <<"Ey", "Ez", "Hy", "Hz">>,
       <<"Ez", "Ex", "Hz", "Hx">>,
       <<"Ex", "Ey", "Hx", "Hy">> >>

InSeq(x, s) == \E i \in DOMAIN s : s[i] = x

CptIndex(c) == CHOOSE i \in 1..6 : EH_CPTS[i] = c

(* ---- the simulator, as far as a cell sees it ---- *)

\* sim.get_dft_array(dft_obj, c, nf) when the monitor holds the fields of
\* run r (0: nothing accumulated yet).  A component the monitor has no data
\* for comes back as a rank-0 array, here <<>>; the even runs are of the
\* polarisation in which Ex, Ey and Hz vanish identically.
DftArray(r, c, nf, npts) ==
    IF r = 0 \/ (r % 2 = 0 /\ c \in {"Ex", "Ey", "Hz"})
    THEN <<>>
    ELSE [p \in 1..npts |->
             <<(r + CptIndex(c) + p + nf) % 3, (r * CptIndex(c) + p + nf) % 2>>]

\* sim.get_dft_array(dft_obj, mp.Dielectric, nf) and (..., mp.Permeability, nf)
Dielectric(npts)   == [p \in 1..npts |-> <<1 + (p % 2), 0>>]
Permeability(npts) == [p \in 1..npts |-> <<1, 0>>]

\* sim.get_eigenmode(freq, dir, vol, mode, k0).amplitude(p, c) for the k-th
\* grid point, in simulation s
EigAmplitude(s, mode, nf, c, k) ==
    <<(s + mode + CptIndex(c) + k) % 3, (s * (nf + 1) + CptIndex(c) + k) % 2>>

(* ---- the cell ---- *)

\* How a call ends: "ok" (it returned), or the exception it raised.
\* Line 319 raises ValueError("DFTCell ... has no saved data for label ...");
\* line 448 names ValueError("DFTCell ...: unsupported quantity type ...").
\* Reading an attribute of None (sim or grid before register) raises
\* AttributeError.
UnknownLabel        == "ValueError: no saved data for label"
UnsupportedQuantity == "ValueError: unsupported quantity type"
AttributeError      == "AttributeError"

\* DFTCell.__init__(region)
DFTCell_init(region) ==
    LET normal   == region.normal
        celltype == IF normal # NoneV THEN "flux" ELSE "fields"
        nfreq    == Get(region.nfreq)
        fcen     == R(Get(region.fcen))
        df       == R(Get(region.df))
    IN  [region     |-> region,
         normal     |-> normal,
         celltype   |-> celltype,
         components |-> IF normal # NoneV THEN EH_TRANSVERSE[Get(normal) + 1]
                        ELSE EH_CPTS,
         fcen       |-> fcen,
         df         |-> df,
         nfreq      |-> nfreq,
         freqs      |-> IF nfreq = 1 THEN <<fcen>>
                        ELSE linspace(RSub(fcen, RMul(RHalf, df)),
                                      RAdd(fcen, RMul(RHalf, df)), nfreq),
         sim        |-> NoneV,
         dft_obj    |-> NoneV,
         EH_cache   |-> <<>>,
         eigencache |-> <<>>,
         name       |-> <<celltype, 0>>,
         grid       |-> NoneV]

\* A register that recomputes the grid on every call.
register_regrid(self, sim, v) ==
    LET center == Get(self.region.center)
        size   == Get(self.region.size)
        handle == IF self.celltype = "flux"
                  THEN [sim |-> sim, kind |-> "flux"]
                  ELSE [sim |-> sim, kind |-> "fields"]
        xyzw   == fix_array_metadata(get_array_metadata(sim, center, size, v),
                                     center, size)
    IN  [self EXCEPT !.sim = Some(sim), !.dft_obj = Some(handle),
                     !.grid = Some(xyzw2grid(xyzw))]

\* DFTCell.register(sim): the cell afterwards.  v is the per-axis variant of
\* the metadata the simulator returns.
register(self, sim, v) ==
    LET center == Get(self.region.center)
        size   == Get(self.region.size)
        handle == IF self.celltype = "flux"
                  THEN [sim |-> sim, kind |-> "flux"]
                  ELSE [sim |-> sim, kind |-> "fields"]
        xyzw   == fix_array_metadata(get_array_metadata(sim, center, size, v),
                                     center, size)
    IN  [self EXCEPT !.sim = Some(sim), !.dft_obj = Some(handle),
                     !.grid = IF self.grid = NoneV THEN Some(xyzw2grid(xyzw))
                              ELSE self.grid]

\* DFTCell.get_EH_slice(c, nf), the monitor holding the fields of run `data`
get_EH_slice(self, data, c, nf) ==
    LET shape == Get(self.grid).shape
        EH    == DftArray(data, c, nf, SeqProd(shape))
    IN  IF Len(EH) > 0 THEN EH ELSE [p \in 1..SeqProd(shape) |-> <<0, 0>>]

\* A get_EH_slices that answers an unknown label with the live slices
\* instead of raising.
get_EH_slices_lenient(self, data, label, nf) ==
    IF label = NoneV \/ Get(label) \notin DOMAIN self.EH_cache
    THEN IF self.sim = NoneV
         THEN [out |-> AttributeError, val |-> NoneV]
         ELSE [out |-> "ok",
               val |-> Some([nc \in 1..Len(self.components) |->
                                get_EH_slice(self, data, self.components[nc], nf)])]
    ELSE [out |-> "ok", val |-> Some(self.EH_cache[Get(label)][nf + 1])]

\* DFTCell.get_EH_slices(label, nf): [out, val]; label is optional.
\* With a label, val is the list object stored in EH_cache itself.
get_EH_slices(self, data, label, nf) ==
    IF label = NoneV
    THEN IF self.sim = NoneV
         THEN [out |-> AttributeError, val |-> NoneV]
         ELSE [out |-> "ok",
               val |-> Some([nc \in 1..Len(self.components) |->
                                get_EH_slice(self, data, self.components[nc], nf)])]
    ELSE IF Get(label) \in DOMAIN self.EH_cache
    THEN [out |-> "ok", val |-> Some(self.EH_cache[Get(label)][nf + 1])]
    ELSE [out |-> UnknownLabel, val |-> NoneV]

\* DFTCell.subtract_incident_fields(EHT, nf): [out, val], val the list EHT
\* after the call (it is modified in place).
subtract_incident_fields(self, data, EHT, nf) ==
    LET r == get_EH_slices(self, data, Some("incident"), nf)
    IN  IF r.out # "ok"
        THEN [out |-> r.out, val |-> EHT]
        ELSE LET EHI == Get(r.val)
             IN  [out |-> "ok",
                  val |-> [nc \in 1..Len(EHT) |->
                              IF nc <= Len(self.components)
                              THEN [p \in 1..Len(EHT[nc]) |->
                                       CSub(EHT[nc][p], EHI[nc][p])]
                              ELSE EHT[nc]]]

\* DFTCell.save_fields(label): [out, self]
save_fields(self, data, label) ==
    IF self.sim = NoneV
    THEN [out |-> AttributeError, self |-> self]
    ELSE LET snap == [i \in 1..Len(self.freqs) |->
                         Get(get_EH_slices(self, data, NoneV, i - 1).val)]
         IN  [out |-> "ok",
              self |-> [self EXCEPT !.EH_cache =
                  [l \in (DOMAIN self.EH_cache) \cup {label} |->
                      IF l = label THEN snap ELSE self.EH_cache[l]]]]

\* '{}'.format(n) for an integer n: its decimal digits, as characters
DigitChar(d) == <<"0", "1", "2", "3", "4", "5", "6", "7", "8", "9">>[d + 1]

RECURSIVE Decimal(_)
Decimal(n) ==
    IF n < 0 THEN <<"-">> \o Decimal(0 - n)
    ELSE IF n < 10 THEN <<DigitChar(n)>>
    ELSE Decimal(n \div 10) \o <<DigitChar(n % 10)>>

\* 'M{}.F{}'.format(mode, nf)
Tag(mode, nf) == <<"M">> \o Decimal(mode) \o <<".", "F">> \o Decimal(nf)

\* A get_eigenmode_slices that never looks in the cache: it solves and
\* stores anew on every call.
get_eigenmode_slices_uncached(self, mode, nf) ==
    LET tag == Tag(mode, nf)
    IN  IF self.sim = NoneV
        THEN [out |-> AttributeError, val |-> NoneV, self |-> self,
              solved |-> FALSE]
        ELSE LET grid == Get(self.grid)
                 eh_slices ==
                     [nc \in 1..Len(self.components) |->
                         [k \in 1..Len(grid.points) |->
                             EigAmplitude(Get(self.sim), mode, nf,
                                          self.components[nc], k)]]
             IN  [out |-> "ok", val |-> Some(eh_slices),
                  self |-> [self EXCEPT !.eigencache =
                      [t \in (DOMAIN self.eigencache) \cup {tag} |->
                          IF t = tag THEN eh_slices ELSE self.eigencache[t]]],
                  solved |-> TRUE]

\* DFTCell.get_eigenmode_slices(mode, nf): [out, val, self, solved]; solved
\* tells whether the simulator's eigenmode solver was invoked.
get_eigenmode_slices(self, mode, nf) ==
    LET tag == Tag(mode, nf)
    IN  IF tag \in DOMAIN self.eigencache
        THEN [out |-> "ok", val |-> Some(self.eigencache[tag]), self |-> self,
              solved |-> FALSE]
        ELSE IF self.sim = NoneV
        THEN [out |-> AttributeError, val |-> NoneV, self |-> self,
              solved |-> FALSE]
        ELSE LET grid == Get(self.grid)
                 eh_slices ==
                     [nc \in 1..Len(self.components) |->
                         [k \in 1..Len(grid.points) |->
                             EigAmplitude(Get(self.sim), mode, nf,
                                          self.components[nc], k)]]
             IN  [out |-> "ok", val |-> Some(eh_slices),
                  self |-> [self EXCEPT !.eigencache =
                      [t \in (DOMAIN self.eigencache) \cup {tag} |->
                          IF t = tag THEN eh_slices ELSE self.eigencache[t]]],
                  solved |-> TRUE]

(* ---- quantity codes: strings as sequences of characters ---- *)
LowerChars == {"p", "f", "m", "b", "s", "u", "e", "h", "t", "x"}
UpperChars == {"P", "F", "M", "B", "S", "U", "E", "H", "T", "X"}

CharUpper(ch) ==
    CASE ch = "p" -> "P" [] ch = "f" -> "F" [] ch = "m" -> "M"
      [] ch = "b" -> "B" [] ch = "s" -> "S" [] ch = "u" -> "U"
      [] ch = "e" -> "E" [] ch = "h" -> "H" [] ch = "t" -> "T"
      [] ch = "x" -> "X" [] OTHER -> ch

\* str.upper()
str_upper(q) == [i \in 1..Len(q) |-> CharUpper(q[i])]

\* str.islower(): at least one cased character, and none of them uppercase
str_islower(q) ==
    /\ \E i \in 1..Len(q) : q[i] \in LowerChars
    /\ \A i \in 1..Len(q) : q[i] \notin UpperChars

\* a in b, for strings
IsSubstring(a, b) ==
    \E k \in 0..(Len(b) - Len(a)) : SubSeq(b, k + 1, k + Len(a)) = a

\* sum over the grid of w * (conj(a)*b - conj(c)*d)
Overlap(w, a, b, c, d) ==
    CSum([p \in 1..Len(w) |->
             CScale(w[p], CSub(CMul(CConj(a[p]), b[p]),
                               CMul(CConj(c[p]), d[p])))])

\* sum over the grid of w * mat * sum of |EH[nc]|^2 over the components in cpts
EnergySum(self, w, mat, EH, cpts) ==
    CSum([p \in 1..Len(w) |->
             CScale(w[p],
                 CMul(mat[p],
                      CSum([nc \in 1..Len(EH) |->
                               IF InSeq(self.components[nc], cpts)
                               THEN CMul(CConj(EH[nc][p]), EH[nc][p])
                               ELSE <<0, 0>>])))])

\* DFTCell.__call__(qcode, mode, nf): [out, val, self, solved].  val is the
\* returned number <<re, im>> with rational parts, or NoneV when the call
\* returns None.
DFTCell_call(self, data, qcode, mode, nf) ==
    IF self.grid = NoneV
    THEN [out |-> AttributeError, val |-> NoneV, self |-> self, solved |-> FALSE]
    ELSE
    LET w        == Get(self.grid).weights
        live     == Get(get_EH_slices(self, data, NoneV, nf).val)
        quantity == str_upper(qcode)
        sub      == IF str_islower(qcode)
                    THEN subtract_incident_fields(self, data, live, nf)
                    ELSE [out |-> "ok", val |-> live]
        EH       == sub.val
    IN  IF sub.out # "ok"
        THEN [out |-> sub.out, val |-> NoneV, self |-> self, solved |-> FALSE]
        ELSE IF quantity = <<"S">>
        THEN [out |-> "ok",
              val |-> Some(<<R(Overlap(w, EH[1], EH[4], EH[2], EH[3])[1]), R(0)>>),
              self |-> self, solved |-> FALSE]
        ELSE IF IsSubstring(str_upper(quantity), <<"P", "F", "M", "B">>)
        THEN LET e    == get_eigenmode_slices(self, mode, nf)
                 eh   == Get(e.val)
                 eH   == Overlap(w, eh[1], EH[4], eh[2], EH[3])
                 hE   == Overlap(w, eh[4], EH[1], eh[3], EH[2])
                 sign == IF qcode \in {<<"P">>, <<"F">>} THEN 1 ELSE 0 - 1
             IN  [out |-> "ok",
                  val |-> Some(CDiv(CAdd(eH, CScale(sign, hE)), 4)),
                  self |-> e.self, solved |-> e.solved]
        ELSE IF quantity \in {<<"U", "E">>, <<"U", "H">>, <<"U", "M">>,
                              <<"U", "E", "H">>, <<"U", "E", "M">>, <<"U", "T">>}
        THEN LET npts == Len(w)
                 qE == IF quantity \in {<<"U", "E">>, <<"U", "E", "H">>,
                                        <<"U", "E", "M">>, <<"U", "T">>}
                       THEN EnergySum(self, w, Dielectric(npts), EH, E_CPTS)
                       ELSE <<0, 0>>
                 qH == IF quantity \in {<<"U", "H">>, <<"U", "M">>,
                                        <<"U", "E", "H">>, <<"U", "E", "M">>,
                                        <<"U", "T">>}
                       THEN EnergySum(self, w, Permeability(npts), EH, H_CPTS)
                       ELSE <<0, 0>>
             IN  [out |-> "ok", val |-> Some(CDiv(CAdd(qE, qH), 2)),
                  self |-> self, solved |-> FALSE]
        \* line 448 builds a ValueError and drops it: the call returns None
        ELSE [out |-> "ok", val |-> NoneV, self |-> self, solved |-> FALSE]

(* ---- the driver's calls ---- *)
CellCenter == V3(0, 0, 0)
CellSize   == V3(0, 1, 0)       \* a line along y: the monitor of a 2-D run

Labels == {"incident", "x"}
\* labels the driver asks for: the saved ones and one never saved
AskLabels == Labels \cup {"never"}

QCodes ==
    { <<"P">>, <<"p">>, <<"F">>, <<"f">>, <<"M">>, <<"m">>, <<"B">>, <<"b">>,
      <<"S">>, <<"U", "E">>, <<"U", "T">>,
      <<"X">>, <<"x">>, <<>>, <<"P", "F">>, <<"M", "B">> }

Freqs == 0..(NFreq - 1)
Modes == 1..MaxMode

\* What the simulator returns for the cell's region: on the collapsed axes
\* the center itself or a snapped single point, with weights shaped like
\* its field arrays.
CellMetaVariants ==
    {v \in [1..3 -> {"exact", "shifted"}] :
        \A d \in 1..3 : v[d] \in AxisVariants(CellSize[d])}

CellRet(op, label, qcode, mode, nf, out, val, arg, solved) ==
    Some([op |-> op, label |-> label, qcode |-> qcode, mode |-> mode,
          nf |-> nf, out |-> out, val |-> val, arg |-> arg, solved |-> solved])

\* A cell as constructed, over a region with or without a normal.
CellInit ==
    /\ \E normal \in {NoneV, Some(0)} :
         cell = Some(DFTCell_init(Get(Subregion_init(2, 2, NFreq, NoneV, NoneV,
                        CellCenter, Some(CellSize), normal, NoneV, NoneV).obj)))
    /\ simData = 0
    /\ ret = NoneV
    /\ nsub = 0

CellFrame == UNCHANGED <<subVars, gridVars, metaVars, objVars>>

Register ==
    /\ ret = NoneV
    /\ CellFrame
    /\ \E sim \in 1..MaxSim, v \in CellMetaVariants :
         /\ cell' = Some(register(Get(cell), sim, v))
         /\ ret' = CellRet("register", NoneV, <<>>, 0, 0, "ok", NoneV, Some(sim),
                           FALSE)
    /\ simData' = 0
    /\ UNCHANGED nsub

\* The simulation the cell is registered in is run to completion.
Run ==
    /\ ret = NoneV
    /\ CellFrame
    /\ Get(cell).sim # NoneV
    /\ \E r \in 1..MaxRun : simData' = r
    /\ UNCHANGED <<cell, ret, nsub>>

GetSlices ==
    /\ ret = NoneV
    /\ CellFrame
    /\ \E label \in Opt(AskLabels), nf \in Freqs :
         LET r == get_EH_slices(Get(cell), simData, label, nf)
         IN  ret' = CellRet("get_EH_slices", label, <<>>, 0, nf, r.out, r.val,
                            NoneV, FALSE)
    /\ UNCHANGED <<cell, simData, nsub>>

\* The caller hands the list it just fetched to subtract_incident_fields.  A
\* list fetched by label is the list EH_cache holds, so the in-place
\* subtraction reaches the cache.
Subtract ==
    /\ ret # NoneV
    /\ CellFrame
    /\ Get(ret).op = "get_EH_slices"
    /\ Get(ret).out = "ok"
    /\ LET c     == Get(cell)
           g     == Get(ret)
           EHT   == Get(g.val)
           r     == subtract_incident_fields(c, simData, EHT, g.nf)
           alias == g.label # NoneV /\ r.out = "ok"
       IN  /\ alias => nsub < MaxSub
           /\ ret' = CellRet("subtract_incident_fields", g.label, <<>>, 0, g.nf,
                             r.out, Some(r.val), Some(EHT), FALSE)
           /\ cell' = IF alias
                      THEN Some([c EXCEPT !.EH_cache[Get(g.label)][g.nf + 1] = r.val])
                      ELSE cell
           /\ nsub' = IF alias THEN nsub + 1 ELSE nsub
    /\ UNCHANGED simData

SaveFields ==
    /\ ret = NoneV
    /\ CellFrame
    /\ \E label \in Labels :
         LET r == save_fields(Get(cell), simData, label)
         IN  /\ cell' = Some(r.self)
             /\ ret' = CellRet("save_fields", Some(label), <<>>, 0, 0, r.out,
                               NoneV, NoneV, FALSE)
    /\ UNCHANGED <<simData, nsub>>

GetEigenmodeSlices ==
    /\ ret = NoneV
    /\ CellFrame
    /\ \E mode \in Modes, nf \in Freqs :
         LET r == get_eigenmode_slices(Get(cell), mode, nf)
         IN  /\ cell' = Some(r.self)
             /\ ret' = CellRet("get_eigenmode_slices", NoneV, <<>>, mode, nf,
                               r.out, r.val, NoneV, r.solved)
    /\ UNCHANGED <<simData, nsub>>

Call ==
    /\ ret = NoneV
    /\ CellFrame
    /\ \E qcode \in QCodes, mode \in Modes, nf \in Freqs :
         LET r == DFTCell_call(Get(cell), simData, qcode, mode, nf)
         IN  /\ cell' = Some(r.self)
             /\ ret' = CellRet("call", NoneV, qcode, mode, nf, r.out, r.val,
                               NoneV, r.solved)
    /\ UNCHANGED <<simData, nsub>>

\* The caller drops the result it holds and goes on.
Return ==
    /\ ret # NoneV
    /\ CellFrame
    /\ ret' = NoneV
    /\ UNCHANGED <<cell, simData, nsub>>

CellIdle == cell = NoneV /\ simData = 0 /\ ret = NoneV /\ nsub = 0
(***************************************************************************)
(* EigenmodeCoefficient  (objective.py)                                    *)
(***************************************************************************)
Resolution == 10    \* sim.resolution of the simulation the objective wraps

UnboundLocalError == "UnboundLocalError"

\* np.atleast_1d(x) * y with numpy broadcasting of a one-entry operand
Broadcast(a, n) == [i \in 1..n |-> IF Len(a) = 1 THEN a[1] ELSE a[i]]

(* ---- the simulator, as far as an objective sees it ---- *)

\* sim.sources[0].src: the temporal envelope of the forward run's source
ForwardEnvelope == [kind |-> "GaussianSource", frequency |-> R(2)]

\* sim.get_eigenmode_coefficients(monitor, [mode]) after run r:
\* alpha[0, i, dir] and cscale[i] for frequency index i
Alpha(r, mode, i, dir) == <<(r + mode + i) % 3, (r + dir + i) % 2>>
CScaleOf(r, i)         == 1 + ((r + i) % 2)

\* mp.get_eigenmode_freqs(monitor)
MonitorFreqs(fcen, df, nf) ==
    IF nf = 1 THEN <<fcen>>
    ELSE linspace(RSub(fcen, RMul(RHalf, df)), RAdd(fcen, RMul(RHalf, df)), nf)

\* |a - b| for rationals, and np.argmin of |freqs - fcen| (0-based)
RAbs(a) == <<Abs(a[1]), a[2]>>
RLess(a, b) == a[1] * b[2] < b[1] * a[2]
ArgMinDist(freqs, fcen) ==
    (CHOOSE i \in 1..Len(freqs) :
        /\ \A k \in 1..Len(freqs) :
               ~RLess(RAbs(RSub(freqs[k], fcen)), RAbs(RSub(freqs[i], fcen)))
        /\ \A k \in 1..(i - 1) :
               RLess(RAbs(RSub(freqs[i], fcen)), RAbs(RSub(freqs[k], fcen)))) - 1

(* ---- the objective ---- *)

\* An __init__ that stores the forward flag with the opposite encoding.
EigenmodeCoefficient_init_swapped(sim, volume, mode, forward, k0) ==
    [sim |-> sim, volume |-> volume, mode |-> mode,
     forward |-> IF forward THEN 1 ELSE 0,
     normal_direction |-> NoneV, k0 |-> k0, eval |-> NoneV,
     fcen |-> Unset, df |-> Unset, nf |-> Unset, monitor |-> Unset,
     time_src |-> Unset, cscale |-> Unset, freqs |-> Unset,
     fcen_idx |-> Unset, source |-> Unset]

\* EigenmodeCoefficient.__init__(sim, volume, mode, forward, k0)
EigenmodeCoefficient_init(sim, volume, mode, forward, k0) ==
    [sim |-> sim, volume |-> volume, mode |-> mode,
     forward |-> IF forward THEN 0 ELSE 1,
     normal_direction |-> NoneV, k0 |-> k0, eval |-> NoneV,
     fcen |-> Unset, df |-> Unset, nf |-> Unset, monitor |-> Unset,
     time_src |-> Unset, cscale |-> Unset, freqs |-> Unset,
     fcen_idx |-> Unset, source |-> Unset]

\* register_monitors(fcen, df, nf); normal is the axis the new monitor
\* reports as its normal_direction
register_monitors(self, fcen, df, nf, normal) ==
    [self EXCEPT !.fcen = Some(fcen), !.df = Some(df), !.nf = Some(nf),
                 !.monitor = Some([fcen |-> fcen, df |-> df, nf |-> nf,
                                   normal_direction |-> normal]),
                 !.normal_direction = Some(normal)]

\* EigenmodeCoefficient.__call__(), the monitor holding the fields of run r:
\* [out, val, self]
EigenmodeCoefficient_call(self, r) ==
    LET s1 == [self EXCEPT !.time_src = Some(ForwardEnvelope)]
    IN  IF s1.monitor = Unset
        THEN [out |-> AttributeError, val |-> NoneV, self |-> s1]
        ELSE LET m     == Get(s1.monitor)
                 freqs == MonitorFreqs(m.fcen, m.df, m.nf)
                 eval  == [i \in 1..m.nf |-> Alpha(r, s1.mode, i - 1, s1.forward)]
                 s2    == [s1 EXCEPT
                              !.eval = Some(eval),
                              !.cscale = Some([i \in 1..m.nf |-> CScaleOf(r, i - 1)]),
                              !.freqs = Some(freqs),
                              !.fcen_idx = Some(ArgMinDist(freqs, Get(s1.fcen)))]
             IN  [out |-> "ok", val |-> Some(eval), self |-> s2]

\* direction_scalar * mp.Vector3(...)
UnitVector(d) == [k \in 1..3 |-> IF k = d + 1 THEN R(1) ELSE R(0)]

\* A place_adjoint_source whose local k0 starts as the zero vector, so that
\* the comparison on the axis-2 branch passes silently.
place_adjoint_source_silent_axis(self, dJ0, dt, time) ==
    LET direction_scalar == IF self.forward # 0 THEN 1 ELSE 0 - 1
        nd == self.normal_direction
        k0 == IF self.k0 = NoneV
              THEN IF nd = Some(0) THEN VScale(R(direction_scalar), UnitVector(0))
                   ELSE IF nd = Some(1)
                   THEN VScale(R(direction_scalar), UnitVector(1))
                   ELSE V3(0, 0, 0)
              ELSE VScale(R(direction_scalar), Get(self.k0))
    IN  IF self.cscale = Unset \/ self.freqs = Unset \/ self.time_src = Unset
        THEN [out |-> AttributeError, val |-> NoneV, self |-> self]
        ELSE LET freqs == Get(self.freqs)
                 n     == Len(freqs)
                 dJ    == Broadcast(dJ0, n)
                 scale == [i \in 1..n |->
                              [da_dE |-> Rat(Get(self.cscale)[i],
                                             2 * Resolution * Resolution),
                               dJ |-> dJ[i], freq |-> freqs[i],
                               envelope |-> Get(self.time_src)]]
                 src   == IF n = 1 THEN Get(self.time_src)
                          ELSE [kind |-> "FilteredSource",
                                frequency |-> Get(self.time_src).frequency,
                                freqs |-> freqs, scale |-> scale, dt |-> dt,
                                time |-> time, time_src |-> Get(self.time_src)]
                 amp   == IF n = 1 THEN Some(scale) ELSE NoneV
                 source == [src |-> src, eig_band |-> self.mode,
                            eig_kpoint |-> k0,
                            unit_amplitude |-> n # 1,
                            amplitude |-> amp,
                            size |-> self.volume.size,
                            center |-> self.volume.center]
             IN  [out |-> "ok", val |-> Some(source),
                  self |-> [self EXCEPT !.source = Some(source)]]

\* A place_adjoint_source that builds the source once and hands the stored
\* one back on later calls.
place_adjoint_source_cached(self, dJ0, dt, time) ==
    LET direction_scalar == IF self.forward # 0 THEN 1 ELSE 0 - 1
        nd == self.normal_direction
        k0 == IF self.k0 = NoneV
              THEN IF nd = Some(0) THEN Some(VScale(R(direction_scalar), UnitVector(0)))
                   ELSE IF nd = Some(1)
                   THEN Some(VScale(R(direction_scalar), UnitVector(1)))
                   ELSE NoneV
              ELSE Some(VScale(R(direction_scalar), Get(self.k0)))
    IN  IF self.source # Unset
        THEN [out |-> "ok", val |-> self.source, self |-> self]
        ELSE IF self.k0 = NoneV /\ nd = Some(2)
        THEN [out |-> UnboundLocalError, val |-> NoneV, self |-> self]
        ELSE IF self.cscale = Unset \/ self.freqs = Unset \/ self.time_src = Unset
        THEN [out |-> AttributeError, val |-> NoneV, self |-> self]
        ELSE LET freqs == Get(self.freqs)
                 n     == Len(freqs)
                 dJ    == Broadcast(dJ0, n)
                 scale == [i \in 1..n |->
                              [da_dE |-> Rat(Get(self.cscale)[i],
                                             2 * Resolution * Resolution),
                               dJ |-> dJ[i], freq |-> freqs[i],
                               envelope |-> Get(self.time_src)]]
                 src   == IF n = 1 THEN Get(self.time_src)
                          ELSE [kind |-> "FilteredSource",
                                frequency |-> Get(self.time_src).frequency,
                                freqs |-> freqs, scale |-> scale, dt |-> dt,
                                time |-> time, time_src |-> Get(self.time_src)]
                 amp   == IF n = 1 THEN Some(scale) ELSE NoneV
             IN  IF k0 = NoneV
                 THEN [out |-> UnboundLocalError, val |-> NoneV, self |-> self]
                 ELSE LET source == [src |-> src, eig_band |-> self.mode,
                                     eig_kpoint |-> Get(k0),
                                     unit_amplitude |-> n # 1,
                                     amplitude |-> amp,
                                     size |-> self.volume.size,
                                     center |-> self.volume.center]
                      IN  [out |-> "ok", val |-> Some(source),
                           self |-> [self EXCEPT !.source = Some(source)]]

\* place_adjoint_source(dJ, dt, time): [out, val, self].  The amplitude of
\* the source is the number 1 where unit_amplitude holds (amplitude NoneV),
\* and the array held in amplitude otherwise.
place_adjoint_source(self, dJ0, dt, time) ==
    LET direction_scalar == IF self.forward # 0 THEN 1 ELSE 0 - 1
        nd == self.normal_direction
        \* lines 54-62: the local k0, NoneV while it is unbound
        k0 == IF self.k0 = NoneV
              THEN IF nd = Some(0) THEN Some(VScale(R(direction_scalar), UnitVector(0)))
                   ELSE IF nd = Some(1)
                   THEN Some(VScale(R(direction_scalar), UnitVector(1)))
                   ELSE NoneV
              ELSE Some(VScale(R(direction_scalar), Get(self.k0)))
    IN  \* line 60 reads the unbound local k0 in a comparison
        IF self.k0 = NoneV /\ nd = Some(2)
        THEN [out |-> UnboundLocalError, val |-> NoneV, self |-> self]
        \* lines 67-68 read cscale, freqs and time_src
        ELSE IF self.cscale = Unset \/ self.freqs = Unset \/ self.time_src = Unset
        THEN [out |-> AttributeError, val |-> NoneV, self |-> self]
        ELSE LET freqs == Get(self.freqs)
                 n     == Len(freqs)
                 dJ    == Broadcast(dJ0, n)
                 scale == [i \in 1..n |->
                              [da_dE |-> Rat(Get(self.cscale)[i],
                                             2 * Resolution * Resolution),
                               dJ |-> dJ[i], freq |-> freqs[i],
                               envelope |-> Get(self.time_src)]]
                 src   == IF n = 1 THEN Get(self.time_src)
                          ELSE [kind |-> "FilteredSource",
                                frequency |-> Get(self.time_src).frequency,
                                freqs |-> freqs, scale |-> scale, dt |-> dt,
                                time |-> time, time_src |-> Get(self.time_src)]
                 amp   == IF n = 1 THEN Some(scale) ELSE NoneV
             IN  \* line 82 reads the local k0
                 IF k0 = NoneV
                 THEN [out |-> UnboundLocalError, val |-> NoneV, self |-> self]
                 ELSE LET source == [src |-> src, eig_band |-> self.mode,
                                     eig_kpoint |-> Get(k0),
                                     unit_amplitude |-> n # 1,
                                     amplitude |-> amp,
                                     size |-> self.volume.size,
                                     center |-> self.volume.center]
                      IN  [out |-> "ok", val |-> Some(source),
                           self |-> [self EXCEPT !.source = Some(source)]]

(* ---- the driver's calls ---- *)
ObjVolume == [center |-> V3(0, 0, 0), size |-> V3(0, 1, 0)]

\* dJ as the driver passes it: a scalar, or one value per frequency
DJs(n) == {<<1>>, <<2>>} \cup {[i \in 1..n |-> i]}

ObjInit ==
    /\ \E forward \in BOOLEAN, k0 \in Opt({V3(0, 1, 0)}) :
         /\ oq = Some(EigenmodeCoefficient_init(1, ObjVolume, 1, forward, k0))
         /\ oqArgs = Some([forward |-> forward, k0 |-> k0])
    /\ oqRet = NoneV

ObjFrame == UNCHANGED <<subVars, gridVars, metaVars, cellVars, oqArgs>>

ObjRet(op, out, val, arg) ==
    Some([op |-> op, out |-> out, val |-> val, arg |-> arg])

RegisterMonitors ==
    /\ ObjFrame
    /\ \E nf \in 1..NFreq, normal \in 0..2 :
         /\ oq' = Some(register_monitors(Get(oq), R(2), R(2), nf, normal))
         /\ oqRet' = ObjRet("register_monitors", "ok", NoneV, <<>>)

Evaluate ==
    /\ ObjFrame
    /\ \E r \in 1..MaxRun :
         LET e == EigenmodeCoefficient_call(Get(oq), r)
         IN  /\ oq' = Some(e.self)
             /\ oqRet' = ObjRet("call", e.out, e.val, <<>>)

PlaceAdjointSource ==
    /\ ObjFrame
    /\ \E dJ \in DJs(IF Get(oq).freqs = Unset THEN 1 ELSE Len(Get(Get(oq).freqs))) :
         LET e == place_adjoint_source(Get(oq), dJ, 1, 1)
         IN  /\ oq' = Some(e.self)
             /\ oqRet' = ObjRet("place_adjoint_source", e.out, e.val, dJ)

ObjIdle == oq = NoneV /\ oqRet = NoneV /\ oqArgs = NoneV

(***************************************************************************)
(* Specifications                                                          *)
(***************************************************************************)
NextCell ==
    \/ Register \/ Run \/ GetSlices \/ Subtract \/ SaveFields
    \/ GetEigenmodeSlices \/ Call \/ Return

InitCell == SubIdle /\ GridIdle /\ MetaIdle /\ CellInit /\ ObjIdle

SpecCell == InitCell /\ [][NextCell]_vars

NextObj == RegisterMonitors \/ Evaluate \/ PlaceAdjointSource

InitObj == SubIdle /\ GridIdle /\ MetaIdle /\ CellIdle /\ ObjInit

SpecObj == InitObj /\ [][NextObj]_vars

NextSub == SubConstruct \/ SubRebuild

InitSub == SubIdle /\ GridIdle /\ MetaIdle /\ CellIdle /\ ObjIdle

SpecSub == InitSub /\ [][NextSub]_vars

NextGrid == MakeGridDefault \/ MakeGridDims \/ MakeGridLength

InitGrid == SubIdle /\ GridIdle /\ MetaIdle /\ CellIdle /\ ObjIdle

SpecGrid == InitGrid /\ [][NextGrid]_vars

NextMeta == MetaFix \/ MetaToGrid

InitMeta == SubIdle /\ GridIdle /\ MetaIdle /\ CellIdle /\ ObjIdle

SpecMeta == InitMeta /\ [][NextMeta]_vars

(***************************************************************************)
(* Properties                                                              *)
(***************************************************************************)
Registered == cell # NoneV /\ Get(cell).grid # NoneV

SupportedCodes ==
    { <<"S">>, <<"P">>, <<"F">>, <<"M">>, <<"B">>, <<"U", "E">>, <<"U", "H">>,
      <<"U", "M">>, <<"U", "E", "H">>, <<"U", "E", "M">>, <<"U", "T">> }

\* C1 (as claimed): on a registered cell (with an 'incident' snapshot saved
\* when the code is lowercase), the call operator with a code that is,
\* compared case-insensitively, none of S, P, F, M, B, UE, UH, UM, UEH, UEM,
\* UT fails with UnsupportedQuantity: it returns neither a value nor None.
C1_UnsupportedCodeFails ==
    (/\ Registered
     /\ ret # NoneV
     /\ Get(ret).op = "call"
     /\ str_upper(Get(ret).qcode) \notin SupportedCodes
     /\ (str_islower(Get(ret).qcode) => "incident" \in DOMAIN Get(cell).EH_cache))
    => Get(ret).out = UnsupportedQuantity

\* The mode-overlap coefficient (eH + sign*hE)/4 of the slice list EH against
\* the eigenmode slices eh, as the specification defines it.
Coefficient(w, eh, EH, sign) ==
    CDiv(CAdd(Overlap(w, eh[1], EH[4], eh[2], EH[3]),
              CScale(sign, Overlap(w, eh[4], EH[1], eh[3], EH[2]))), 4)

\* C2 (as claimed): on a flux cell with an 'incident' snapshot saved, the
\* codes P, F, p, f return the coefficient with sign +1 and M, B, m, b the
\* one with sign -1; an uppercase code takes it of the live slices, a
\* lowercase code of the live slices minus the saved incident slices.
C2_CaseDecidesOnlySubtraction ==
    (/\ Registered
     /\ ret # NoneV
     /\ Get(ret).op = "call"
     /\ Get(cell).celltype = "flux"
     /\ "incident" \in DOMAIN Get(cell).EH_cache
     /\ str_upper(Get(ret).qcode) \in {<<"P">>, <<"F">>, <<"M">>, <<"B">>})
    => LET c    == Get(cell)
           g    == Get(ret)
           live == Get(get_EH_slices(c, simData, NoneV, g.nf).val)
           inc  == c.EH_cache["incident"][g.nf + 1]
           EH   == IF str_islower(g.qcode)
                   THEN [nc \in 1..4 |-> [p \in 1..Len(live[nc]) |->
                            CSub(live[nc][p], inc[nc][p])]]
                   ELSE live
           sign == IF str_upper(g.qcode) \in {<<"P">>, <<"F">>} THEN 1 ELSE 0 - 1
       IN  /\ g.out = "ok"
           /\ g.val = Some(Coefficient(Get(c.grid).weights, c.eigencache[Tag(g.mode, g.nf)], EH, sign))

\* C3: get_EH_slices with a label that is not in EH_cache raises UnknownLabel
\* and returns nothing; subtract_incident_fields, and the call operator of a
\* registered cell with a lowercase code, raise it when no 'incident'
\* snapshot is saved; and a call that ends in UnknownLabel leaves EH_cache,
\* eigencache and the caller's slice list as they were.
C3_State ==
    ret # NoneV =>
        LET g == Get(ret)
            c == Get(cell)
        IN  /\ (g.op = "get_EH_slices" /\ g.label # NoneV
                    /\ Get(g.label) \notin DOMAIN c.EH_cache)
               => (g.out = UnknownLabel /\ g.val = NoneV)
            /\ (g.op = "subtract_incident_fields"
                    /\ "incident" \notin DOMAIN c.EH_cache)
               => (g.out = UnknownLabel /\ g.val = g.arg)
            /\ (g.op = "call" /\ Registered /\ str_islower(g.qcode)
                    /\ "incident" \notin DOMAIN c.EH_cache)
               => (g.out = UnknownLabel /\ g.val = NoneV)

C3_Step ==
    (ret' # NoneV /\ Get(ret').out = UnknownLabel) =>
        /\ Get(cell').EH_cache = Get(cell).EH_cache
        /\ Get(cell').eigencache = Get(cell).eigencache

C4_Step ==
    LET c  == Get(cell)
        c2 == Get(cell')
    IN  /\ \A x \in DOMAIN c.EH_cache :
              /\ x \in DOMAIN c2.EH_cache
              /\ c2.EH_cache[x] # c.EH_cache[x]
                 => (ret' # NoneV /\ Get(ret').op = "save_fields"
                        /\ Get(ret').label = Some(x))
        /\ (ret' # NoneV /\ ret = NoneV /\ Get(ret').op = "save_fields"
                /\ Get(ret').out = "ok")
           => \A nf \in Freqs :
                  get_EH_slices(c2, simData', Get(ret').label, nf).val
                      = get_EH_slices(c2, simData', NoneV, nf).val

C4_SnapshotsArePreserved == [][C4_Step]_vars

\* C8 (as claimed): place_adjoint_source on an instance that was never
\* evaluated, registered or not, fails with the missing-evaluation error
\* (PrematureAccess) and sets no source attribute; an instance holds a
\* source only once it has been evaluated.
PrematureAccess == AttributeError

C8_NoSourceBeforeEvaluation ==
    /\ (oqRet # NoneV /\ Get(oqRet).op = "place_adjoint_source"
            /\ Get(oq).eval = NoneV)
       => (Get(oqRet).out = PrematureAccess /\ Get(oq).source = Unset)
    /\ \A o \in oq : o.source # Unset => o.eval # NoneV

\* The last call was a place_adjoint_source that returned a source built
\* with the default wavevector along normal axis 0 or 1.
DefaultWavevectorBuilt ==
    /\ oqRet # NoneV
    /\ Get(oqRet).op = "place_adjoint_source"
    /\ Get(oqRet).out = "ok"
    /\ Get(oqArgs).k0 = NoneV
    /\ Get(oq).normal_direction \in {Some(0), Some(1)}

\* C11 (as claimed): with no fixed wavevector and normal axis 0 or 1, the
\* source built by place_adjoint_source has the unit vector along the normal
\* axis as its wavevector when the instance was constructed with
\* forward=True, and the negated unit vector when forward=False.
C11_ForwardGivesPlusUnit ==
    DefaultWavevectorBuilt =>
        Get(Get(oqRet).val).eig_kpoint =
            VScale(R(IF Get(oqArgs).forward THEN 1 ELSE 0 - 1),
                   UnitVector(Get(Get(oq).normal_direction)))

\* C11 (amended): with no fixed wavevector and normal axis 0 or 1, the
\* source built by place_adjoint_source has the negated unit vector along
\* the normal axis as its wavevector when the instance was constructed with
\* forward=True, and the unit vector itself when forward=False.
C11_ForwardGivesMinusUnit ==
    DefaultWavevectorBuilt =>
        Get(Get(oqRet).val).eig_kpoint =
            VScale(R(IF Get(oqArgs).forward THEN 0 - 1 ELSE 1),
                   UnitVector(Get(Get(oq).normal_direction)))

\* C11 witness: a forward=True instance has just built a source with the
\* default wavevector along axis 1.
C11_Witness ==
    /\ DefaultWavevectorBuilt
    /\ Get(oqArgs).forward
    /\ Get(oq).normal_direction = Some(1)
    /\ Get(oq).source = Get(oqRet).val

\* The error place_adjoint_source ends in when the default wavevector cannot
\* be built for the monitor's normal axis.
UnhandledAxis == UnboundLocalError

\* C12: with no fixed wavevector and normal axis 2, place_adjoint_source on
\* an evaluated instance fails with UnhandledAxis and returns nothing; a
\* source returned with a default wavevector has normal axis 0 or 1 and the
\* signed unit vector of that axis; and a call on normal axis 2 leaves the
\* source attribute as it was.
C12_State ==
    (oqRet # NoneV /\ Get(oqRet).op = "place_adjoint_source"
        /\ Get(oq).k0 = NoneV) =>
        /\ (Get(oq).normal_direction = Some(2) /\ Get(oq).eval # NoneV)
           => (Get(oqRet).out = UnhandledAxis /\ Get(oqRet).val = NoneV)
        /\ Get(oqRet).out = "ok"
           => /\ Get(oq).normal_direction \in {Some(0), Some(1)}
              /\ \E sgn \in {0 - 1, 1} :
                    Get(Get(oqRet).val).eig_kpoint =
                        VScale(R(sgn), UnitVector(Get(Get(oq).normal_direction)))

C12_Step ==
    (oqRet' # NoneV /\ Get(oqRet').op = "place_adjoint_source"
        /\ Get(oq).k0 = NoneV /\ Get(oq).normal_direction = Some(2))
    => Get(oq').source = Get(oq).source

C12_Axis2FailsWithoutSource == [](C12_State) /\ [][C12_Step]_vars

\* C12 witness: an evaluated instance that already holds a source built on
\* another axis has just failed on normal axis 2.
C12_Witness ==
    /\ oqRet # NoneV
    /\ Get(oqRet).op = "place_adjoint_source"
    /\ Get(oqRet).out = UnhandledAxis
    /\ Get(oq).k0 = NoneV
    /\ Get(oq).normal_direction = Some(2)
    /\ Get(oq).eval # NoneV
    /\ Get(oq).source # Unset

\* The arguments the tag format is compared over.
MaxTagArg == 12

\* Distinct (mode, nf) pairs are formatted to distinct tags.
TagsInjective ==
    \A m1 \in 0..MaxTagArg, f1 \in 0..MaxTagArg,
       m2 \in 0..MaxTagArg, f2 \in 0..MaxTagArg :
        Tag(m1, f1) = Tag(m2, f2) => (m1 = m2 /\ f1 = f2)

\* C13: a get_eigenmode_slices call that returns hands back the cache entry
\* of its own (mode, nf) tag; distinct pairs have distinct tags; a call for
\* a pair whose tag is cached returns the cached arrays without invoking
\* the eigenmode solver, whatever happened in between; the solver is invoked
\* only for a tag not yet cached; and no step removes or changes an entry of
\* eigencache.
C13_State ==
    /\ TagsInjective
    /\ (ret # NoneV /\ Get(ret).op = "get_eigenmode_slices"
            /\ Get(ret).out = "ok") =>
        /\ Tag(Get(ret).mode, Get(ret).nf) \in DOMAIN Get(cell).eigencache
        /\ Get(ret).val =
               Some(Get(cell).eigencache[Tag(Get(ret).mode, Get(ret).nf)])

C13_Step ==
    LET old == Get(cell).eigencache
        new == Get(cell').eigencache
    IN  /\ \A t \in DOMAIN old : t \in DOMAIN new /\ new[t] = old[t]
        /\ (ret = NoneV /\ ret' # NoneV) =>
            LET g   == Get(ret')
                tag == Tag(g.mode, g.nf)
            IN  /\ g.solved => (tag \notin DOMAIN old /\ tag \in DOMAIN new)
                /\ (g.op = "get_eigenmode_slices" /\ tag \in DOMAIN old)
                   => (~g.solved /\ g.out = "ok" /\ g.val = Some(old[tag]))

C13_EigenmodesSolvedOnce == [](C13_State) /\ [][C13_Step]_vars

\* C13 witness: the cell is registered in another simulation than the one a
\* cached pair was solved in, and a repeat request for the pair has just
\* returned the cached arrays without a solve.
C13_Witness ==
    /\ ret # NoneV
    /\ Get(ret).op = "get_eigenmode_slices"
    /\ Get(ret).out = "ok"
    /\ ~Get(ret).solved
    /\ Get(cell).sim = Some(2)
    /\ Get(ret).val =
           Some([nc \in 1..Len(Get(cell).components) |->
                    [k \in 1..Len(Get(Get(cell).grid).points) |->
                        EigAmplitude(1, Get(ret).mode, Get(ret).nf,
                                     Get(cell).components[nc], k)]])
    /\ Get(ret).val #
           Some([nc \in 1..Len(Get(cell).components) |->
                    [k \in 1..Len(Get(Get(cell).grid).points) |->
                        EigAmplitude(2, Get(ret).mode, Get(ret).nf,
                                     Get(cell).components[nc], k)]])

\* C14: after register(sim) the cell's sim is that simulation and dft_obj a
\* monitor of it, of flux type exactly when the region has a normal, and
\* the live slices are those of the new monitor; the first register call
\* sets the grid from the simulator's metadata, a later one leaves the grid
\* as it was; and no register call changes EH_cache or eigencache.
C14_State ==
    (ret # NoneV /\ Get(ret).op = "register") =>
        LET c == Get(cell)
        IN  /\ c.sim = Get(ret).arg
            /\ c.dft_obj =
                   Some([sim |-> Get(Get(ret).arg),
                         kind |-> IF c.region.normal # NoneV THEN "flux"
                                  ELSE "fields"])
            /\ c.grid # NoneV
            /\ \A nf \in Freqs :
                   get_EH_slices(c, simData, NoneV, nf).val =
                       Some([nc \in 1..Len(c.components) |->
                                [p \in 1..SeqProd(Get(c.grid).shape) |-> <<0, 0>>]])

C14_Step ==
    (ret = NoneV /\ ret' # NoneV /\ Get(ret').op = "register") =>
        /\ Get(cell').EH_cache = Get(cell).EH_cache
        /\ Get(cell').eigencache = Get(cell).eigencache
        /\ Get(cell).grid # NoneV => Get(cell').grid = Get(cell).grid
        /\ Get(cell).grid = NoneV =>
               \E v \in CellMetaVariants :
                   Get(cell').grid =
                       Some(xyzw2grid(fix_array_metadata(
                           get_array_metadata(Get(Get(ret').arg),
                                              Get(Get(cell).region.center),
                                              Get(Get(cell).region.size), v),
                           Get(Get(cell).region.center),
                           Get(Get(cell).region.size))))

C14_RegisterRebindsOnly == [](C14_State) /\ [][C14_Step]_vars

\* C14 witness: a cell holding a snapshot and a cached eigenmode has just
\* been registered in simulation 2 and still carries the grid of
\* simulation 1, whose weights differ from those of simulation 2.
C14_Witness ==
    /\ ret # NoneV
    /\ Get(ret).op = "register"
    /\ Get(ret).arg = Some(2)
    /\ Get(cell).sim = Some(2)
    /\ DOMAIN Get(cell).EH_cache # {}
    /\ DOMAIN Get(cell).eigencache # {}
    /\ Get(Get(cell).grid).weights = SimWeights(1, Get(Get(cell).grid).shape).data
    /\ Get(Get(cell).grid).weights # SimWeights(2, Get(Get(cell).grid).shape).data

\* C15 (as claimed): the Grid made by xyzw2grid from simulator metadata
\* passed through fix_array_metadata has len(points) = len(weights) =
\* len(xtics)*len(ytics)*len(ztics), whatever the raw metadata was.
C15_FixedGridIsAligned ==
    mdGrid # NoneV =>
        LET g == Get(mdGrid)
            n == Len(g.xtics) * Len(g.ytics) * Len(g.ztics)
        IN  Len(g.points) = n /\ Len(g.weights) = n

\* The per-frequency scale of the specification for derivative values dJ0:
\* for each recorded frequency, half of cscale over the squared resolution,
\* the derivative value, the frequency, and the envelope whose Fourier
\* transform at that frequency divides it.
ScaleProfile(o, dJ0) ==
    [i \in 1..Len(Get(o.freqs)) |->
        [da_dE |-> Rat(Get(o.cscale)[i], 2 * Resolution * Resolution),
         dJ |-> IF Len(dJ0) = 1 THEN dJ0[1] ELSE dJ0[i],
         freq |-> Get(o.freqs)[i],
         envelope |-> Get(o.time_src)]]

\* C16: a source returned by place_adjoint_source on an evaluated instance
\* is the one stored in the source attribute and is built from the
\* derivative values of that very call; with one recorded frequency it
\* carries the forward run's envelope itself and the scale as amplitude,
\* with more than one a filtered envelope built from the scale profile and
\* amplitude 1; and no place_adjoint_source call changes eval, cscale, freqs
\* or time_src.
C16_State ==
    (oqRet # NoneV /\ Get(oqRet).op = "place_adjoint_source"
        /\ Get(oqRet).out = "ok") =>
        LET o     == Get(oq)
            src   == Get(Get(oqRet).val)
            scale == ScaleProfile(o, Get(oqRet).arg)
        IN  /\ o.eval # NoneV
            /\ o.source = Get(oqRet).val
            /\ Len(Get(o.freqs)) = 1 =>
                   /\ src.src = ForwardEnvelope
                   /\ src.src = Get(o.time_src)
                   /\ ~src.unit_amplitude
                   /\ src.amplitude = Some(scale)
            /\ Len(Get(o.freqs)) > 1 =>
                   /\ src.src.kind = "FilteredSource"
                   /\ src.src.scale = scale
                   /\ src.src.freqs = Get(o.freqs)
                   /\ src.src.time_src = Get(o.time_src)
                   /\ src.unit_amplitude
                   /\ src.amplitude = NoneV

C16_Step ==
    (oqRet' # NoneV /\ Get(oqRet').op = "place_adjoint_source") =>
        /\ Get(oq').eval = Get(oq).eval
        /\ Get(oq').cscale = Get(oq).cscale
        /\ Get(oq').freqs = Get(oq).freqs
        /\ Get(oq').time_src = Get(oq).time_src

C16_EnvelopeByFrequencyCount == [](C16_State) /\ [][C16_Step]_vars

\* C16 witness: an instance evaluated over several frequencies has just
\* returned a filtered-envelope source for per-frequency derivative values.
C16_Witness ==
    /\ oqRet # NoneV
    /\ Get(oqRet).op = "place_adjoint_source"
    /\ Get(oqRet).out = "ok"
    /\ Len(Get(Get(oq).freqs)) > 1
    /\ Len(Get(oqRet).arg) > 1
    /\ Get(Get(oqRet).val).src.kind = "FilteredSource"

RECURSIVE RSum(_)
RSum(s) == IF s = <<>> THEN R(0) ELSE RAdd(Head(s), RSum(Tail(s)))

GridTics(g, d) == IF d = 1 THEN g.xtics ELSE IF d = 2 THEN g.ytics ELSE g.ztics

\* C5 (as claimed): every make_grid call returns a Grid in which each axis of
\* zero extent holds exactly the one coordinate center[d], and whose weights
\* sum to the product of the positive extents.
C5_ZeroAxesCollapseAndWeightsSum ==
    mgArgs # NoneV =>
        LET a == Get(mgArgs)
        IN  /\ mgOut.out = "ok"
            /\ \A d \in 1..Len(a.size) :
                   a.size[d][1] = 0 =>
                       GridTics(Get(mgOut.grid), d) = <<a.center[d]>>
            /\ RSum(Get(mgOut.grid).weights) = RProd(SelectPos(a.size))

\* C6 (as claimed): every make_grid call on valid input returns a Grid with
\* len(points) = len(weights) = len(xtics)*len(ytics)*len(ztics), and shape
\* lists exactly the lengths of the axes that have more than one point.
C6_PointsWeightsAligned ==
    mgArgs # NoneV =>
        /\ mgOut.out = "ok"
        /\ LET g    == Get(mgOut.grid)
               lens == <<Len(g.xtics), Len(g.ytics), Len(g.ztics)>>
           IN  /\ Len(g.points) = SeqProd(lens)
               /\ Len(g.weights) = SeqProd(lens)
               /\ g.shape = SelectSeq(lens, LongerThanOne)

\* C7 (as claimed): after fix_array_metadata every axis of zero extent holds
\* exactly the single coordinate center[d], whatever the raw metadata was.
C7_FixCollapsesEveryZeroAxis ==
    mdArgs # NoneV =>
        LET a == Get(mdArgs)
        IN  \A d \in 1..3 :
                a.size[d][1] = 0 => Get(mdXyzw)[d] = <<a.center[d]>>

\* C9 (as claimed): a Subregion built from (center, size) has corners
\* center -/+ size/2, and a second Subregion built from those corners has the
\* same center and the same size.
C9_ConstructionFormsAgree ==
    /\ (subOut # NoneV /\ Get(subOut).op = "construct"
            /\ Get(subOut).args.xmin = NoneV /\ Get(subOut).args.size # NoneV) =>
        LET o == Get(subA)
        IN  /\ Get(o.xmin) = VSub(Get(o.center), VScale(RHalf, Get(o.size)))
            /\ Get(o.xmax) = VAdd(Get(o.center), VScale(RHalf, Get(o.size)))
    /\ (subOut # NoneV /\ Get(subOut).op = "rebuild") =>
        /\ Get(subOut).out = "ok"
        /\ subB # NoneV
        /\ Get(subB).center = Get(subA).center
        /\ Get(subB).size = Get(subA).size

\* C10 (as claimed): constructing a Subregion with neither both corners nor a
\* size fails, and no Subregion lacking center, size, xmin or xmax is ever
\* produced.
C10_NeitherFormIsRejected ==
    /\ (subOut # NoneV /\ Get(subOut).op = "construct"
            /\ (Get(subOut).args.xmin = NoneV \/ Get(subOut).args.xmax = NoneV)
            /\ Get(subOut).args.size = NoneV) =>
        (Get(subOut).out # "ok" /\ subA = NoneV)
    /\ \A o \in subA \cup subB :
        o.center # Unset /\ o.size # Unset /\ o.xmin # Unset /\ o.xmax # Unset

=============================================================================
